---- MODULE Spec2Model ----
(***************************************************************************)
(* Model of the snap-pipeline event router and pipeline orchestrator:      *)
(* the Trello webhook handler (src/api/main.py), the signature verifier    *)
(* (src/api/trello_auth.py), the Celery chains and the error callback      *)
(* (src/workers/tasks/pipeline.py), the four stage executors               *)
(* (src/workers/tasks/script.py, src/workers/tasks/deliver.py), the admin  *)
(* reset and the script editor's save (src/api/script_editor.py).          *)
(***************************************************************************)
EXTENDS Integers, Sequences, FiniteSets, TLC

(***************************************************************************)
(* Bounds of the model.                                                    *)
(***************************************************************************)
MaxEvents == 2      \* webhook deliveries handled in one behaviour
MaxFaults == 4      \* external calls that fail in one behaviour
MaxEnv == 1         \* days that pass, admin resets and editor saves in one behaviour
MaxLen == 2         \* longest body / callback URL of the verifier's inputs
MaxMutations == 2   \* single changes applied to a verifier input

(***************************************************************************)
(* Program constants.                                                      *)
(***************************************************************************)
LOCK_TTL == 1            \* ex=86400: one day
SCRIPT_TTL == 7          \* 604800 s: seven days
AUDIO_TTL == 1           \* 86400 s: one day
WRITE_MAX_RETRIES == 3
REVISE_MAX_RETRIES == 2
VOICE_MAX_RETRIES == 2
DELIVER_MAX_RETRIES == 3
WRITE_RETRY_DELAY == 60      \* default_retry_delay, in seconds
REVISE_RETRY_DELAY == 30
VOICE_RETRY_DELAY == 60
DELIVER_RETRY_DELAY == 30

(***************************************************************************)
(* Label names.  A name is kept as Trello stores it; Lower is str.lower()  *)
(* on the names the model uses.                                            *)
(***************************************************************************)
trigger_label == "snap script"
label_writing == "Snap: Writing Script"
label_review == "Snap: Script Ready"
label_approved == "Snap Approved"
label_generating_voice == "Snap: Generating Voice"
label_done == "Snap: Done"
label_error == "Snap: Error"

Lower(n) ==
  CASE n = "Snap script" -> "snap script"
    [] n = "Snap: Writing Script" -> "snap: writing script"
    [] n = "Snap: Script Ready" -> "snap: script ready"
    [] n = "Snap Approved" -> "snap approved"
    [] n = "SNAP APPROVED" -> "snap approved"
    [] n = "Snap: Generating Voice" -> "snap: generating voice"
    [] n = "Snap: Done" -> "snap: done"
    [] n = "Snap: Error" -> "snap: error"
    [] n = "ShowA (Snap)" -> "showa (snap)"
    [] n = "ShowB (Snap)" -> "showb (snap)"
    [] n = "Ghost (Snap)" -> "ghost (snap)"
    [] OTHER -> n

\* name.lower().endswith("(snap)") on a lower-cased name
EndsWithSnap(n) == n \in {"showa (snap)", "showb (snap)", "ghost (snap)"}

\* PipelineConfig._channels: the registered shows, keyed by lower-cased name
Channels == {"showa (snap)", "showb (snap)"}

\* PipelineConfig.get_channel: the show registered under label_name.lower()
get_channel(label_name) ==
  IF Lower(label_name) \in Channels THEN Lower(label_name) ELSE "None"

\* PipelineConfig.get_snap_channel: the loop returns the first match in the
\* set's iteration order, so any matching label can be the result; the
\* empty set stands for None.
get_snap_channel_any_suffix(label_names) ==
  {name \in label_names : EndsWithSnap(Lower(name))}
get_snap_channel(label_names) ==
  {name \in label_names : EndsWithSnap(Lower(name)) /\ get_channel(name) # "None"}

(***************************************************************************)
(* Signature verifier (src/api/trello_auth.py).  Bytes and characters are  *)
(* numbers: a byte is in Bytes, a character is its code point, ASCII       *)
(* below 128.  HMAC-SHA1 is an ideal keyed hash (no two inputs collide)    *)
(* and base64 turns a digest into ASCII text.                              *)
(***************************************************************************)
Bytes == {1, 2}
BytesUpTo(n) == UNION {[1..k -> Bytes] : k \in 0..n}

\* Settings.trello_webhook_secret.encode()
trello_webhook_secret == <<2, 1>>

\* hmac.new(key, msg, hashlib.sha1).digest()
HmacSha1(key, msg) == <<Len(key)>> \o key \o msg

\* base64.b64encode(digest).decode()
B64Encode(digest) == [i \in 1..Len(digest) |-> 65 + digest[i]]

IsAscii(text) == \A i \in 1..Len(text) : text[i] < 128

\* hmac.compare_digest(a, b) on two str: TypeError unless both are ASCII
compare_digest(a, b) ==
  IF ~(IsAscii(a) /\ IsAscii(b)) THEN "TypeError"
  ELSE IF a = b THEN "True" ELSE "False"

\* content = body + callback_url.encode()
SignedContentDroppingUrl(body, callback_url) == body
SignedContent(body, callback_url) == body \o callback_url

verify_trello_signature(body, signature, callback_url) ==
  LET secret == trello_webhook_secret
      content == SignedContent(body, callback_url)
      digest == HmacSha1(secret, content)
      expected == B64Encode(digest)
  IN  compare_digest(expected, signature)

(***************************************************************************)
(* Event router: the decisions of trello_webhook (src/api/main.py) that    *)
(* follow the label fetch, as a function of the event and the label set.   *)
(***************************************************************************)
relevant_types == {"addLabelToCard", "commentCard"}

\* {l["name"].lower() for l in labels if l.get("name")}
LabelNames(raw) == {Lower(n) : n \in raw \ {""}}

\* comment_text.startswith("**")
StartsWithBold(text) ==
  text \in {"**Snap Script Generated**", "**Snap Script Revised**",
            "**Snap Delivered**", "**Snap Pipeline Error**",
            "**Script Manually Edited**", "**urgent** fix the intro"}

Ignored(reason) ==
  [status |-> "ignored", reason |-> reason, route |-> "none", channels |-> {}]

\* ROUTE A: a comment
RouteCommentWithoutBotCheck(label_names, comment_text) ==
  IF Lower(label_review) \notin label_names THEN Ignored("card not in review")
  ELSE IF get_snap_channel(label_names) = {} THEN Ignored("no snap channel label")
  ELSE [status |-> "revision_queued", reason |-> "", route |-> "revise",
        channels |-> get_snap_channel(label_names)]
RouteComment(label_names, comment_text) ==
  IF StartsWithBold(comment_text) THEN Ignored("bot comment")
  ELSE IF Lower(label_review) \notin label_names THEN Ignored("card not in review")
  ELSE IF get_snap_channel(label_names) = {} THEN Ignored("no snap channel label")
  ELSE [status |-> "revision_queued", reason |-> "", route |-> "revise",
        channels |-> get_snap_channel(label_names)]

\* ROUTE B: the approved label was added
RouteApproved(label_names) ==
  IF get_snap_channel(label_names) = {} THEN Ignored("no snap channel label")
  ELSE [status |-> "voice_enqueued", reason |-> "", route |-> "voice",
        channels |-> get_snap_channel(label_names)]

\* ROUTE C: trigger label + channel label
RouteTriggerOnAddedLabel(label_names, added_label) ==
  IF Lower(added_label) # Lower(trigger_label) THEN Ignored("no trigger label")
  ELSE IF get_snap_channel(label_names) = {} THEN Ignored("no snap channel label")
  ELSE [status |-> "script_enqueued", reason |-> "", route |-> "script",
        channels |-> get_snap_channel(label_names)]
RouteTrigger(label_names, added_label) ==
  IF Lower(trigger_label) \notin label_names THEN Ignored("no trigger label")
  ELSE IF get_snap_channel(label_names) = {} THEN Ignored("no snap channel label")
  ELSE [status |-> "script_enqueued", reason |-> "", route |-> "script",
        channels |-> get_snap_channel(label_names)]

RouteCaseSensitive(action_type, label_names, comment_text, added_label) ==
  IF action_type \notin relevant_types THEN Ignored("action_type")
  ELSE IF action_type = "commentCard" THEN RouteComment(label_names, comment_text)
  ELSE IF added_label = label_approved THEN RouteApproved(label_names)
  ELSE RouteTrigger(label_names, added_label)
Route(action_type, label_names, comment_text, added_label) ==
  IF action_type \notin relevant_types THEN Ignored("action_type")
  ELSE IF action_type = "commentCard" THEN RouteComment(label_names, comment_text)
  ELSE IF Lower(added_label) = Lower(label_approved) THEN RouteApproved(label_names)
  ELSE RouteTrigger(label_names, added_label)

(***************************************************************************)
(* State.                                                                  *)
(***************************************************************************)
VARIABLES
  cards,      \* the card ids of the board
  labels,     \* labels[c]: the label names card c carries on Trello
  attached,   \* attached[c]: the attachments of card c, <<file name, content>>
  comments,   \* comments[c]: the comments the system has posted on card c
  moved,      \* moved[c]: card c is in the "Videos in Edit" list
  kv,         \* kv[c][k]: the Redis key snap:<k>:<c>, [val, ttl, by]; by is
              \* who created the key: a handler's SET NX, a stage, the editor
  epoch,      \* epoch[c][k]: how often the key has stopped existing
  handlers,   \* handlers[h]: the h-th webhook request
  runs,       \* runs[r]: the r-th dispatched chain or task
  admin,      \* the admin reset request in flight
  editor,     \* the editor save request in flight
  budget,     \* what is left of the bounds
  vq,         \* the verifier's input and result
  rq          \* the router's input and result

vars == <<cards, labels, attached, comments, moved, kv, epoch, handlers, runs,
          admin, editor, budget, vq, rq>>

pipelineVars == <<cards, labels, attached, comments, moved, kv, epoch, handlers,
                  runs, admin, editor, budget>>

Keys == {"script", "voice", "audio", "stats"}
Absent == [val |-> "nil", ttl |-> 0, by |-> "nil"]
Exists(c, k) == kv[c][k].ttl > 0

\* r.set(key, value, ex=ttl): the key's value and expiry are replaced
RedisSet(store, c, k, v, ttl, who) ==
  [store EXCEPT ![c][k] = [val |-> v, ttl |-> ttl,
                           by |-> IF @.ttl > 0 THEN @.by ELSE who]]
\* r.delete(key)
RedisDelete(store, c, k) == [store EXCEPT ![c][k] = Absent]
\* the reply of r.set(key, value, nx=True): truthy iff the key was created
SetNxAlwaysCreates(store, c, k) == TRUE
SetNxCreates(store, c, k) == store[c][k].ttl = 0

\* the lifetimes of card c's key k that have ended
EndLifetime(ep, c, k) == [ep EXCEPT ![c][k] = @ + 1]

IdleHandler ==
  [pc |-> "idle", type |-> "", card |-> "None", added |-> "", text |-> "",
   label_names |-> {}, route |-> "none", chan |-> "None", won |-> FALSE,
   epoch |-> 0, code |-> 0, status |-> "", reason |-> "", run |-> 0,
   verified |-> "", fetched |-> FALSE, holder |-> "nil"]

NoRun ==
  [kind |-> "none", card |-> "None", chan |-> "None", stage |-> "none",
   pc |-> "none", retries |-> 0, status |-> "none", result |-> "",
   script |-> "nil", audio |-> "nil", stats |-> {}, comment |-> "",
   errback |-> "none", escalations |-> 0,
   stale |-> FALSE, read_ok |-> FALSE,
   voice_done |-> FALSE, deliver_started |-> FALSE,
   script_missing |-> FALSE, audio_missing |-> FALSE, audio_deleted |-> FALSE,
   delay |-> 0, in_review |-> FALSE, esc_label |-> FALSE, esc_comments |-> 0,
   audio_attachments |-> 0, completion_comments |-> 0]

Handlers == 1..MaxEvents
Runs == 1..MaxEvents

\* a card as the board holds it when a behaviour begins: new, with the trigger
\* and a channel label; or with its script written and waiting for review, the
\* state write_script leaves behind (the SET NX key now holds the script)
Starts == {"new", "review"}

StartLabels(start) ==
  {"Snap script", "ShowA (Snap)"} \cup (IF start = "review" THEN {label_review} ELSE {})
StartKeys(start) ==
  [k \in Keys |->
     IF start = "review" /\ k = "script"
     THEN [val |-> "draft", ttl |-> SCRIPT_TTL, by |-> "earlier"]
     ELSE IF start = "review" /\ k = "stats"
     THEN [val |-> "{script}", ttl |-> SCRIPT_TTL, by |-> "earlier"]
     ELSE Absent]
StartAttached(start) ==
  IF start = "review"
  THEN {<<"script.txt", "draft">>, <<"research.txt", "research">>} ELSE {}
StartComments(start) ==
  IF start = "review" THEN {"**Snap Script Generated**"} ELSE {}

\* what one behaviour may contain: webhook deliveries, failing external calls,
\* and steps of the environment (a day passing, an admin reset, an editor save)
Scenarios ==
  {[start |-> st, events |-> MaxEvents, faults |-> 0, env |-> MaxEnv] : st \in Starts}
  \cup {[start |-> st, events |-> 1, faults |-> MaxFaults, env |-> MaxEnv] : st \in Starts}

\* no admin reset yet.  before, seen, alone, frame and left record the reset for
\* the properties: the card's keys when it began, the card's keys as its last
\* delete left them, whether they were still so at each later delete, whether
\* its deletes left every other key as it was, and the card's keys at the reply
NoAdmin ==
  [pc |-> "idle", card |-> "None", keys_deleted |-> 0, before |-> {},
   seen |-> [k \in Keys |-> Absent], alone |-> TRUE, frame |-> TRUE, left |-> {}]

\* no request, task, reset or save in flight
NothingInFlight ==
  /\ moved = [c \in cards |-> FALSE]
  /\ epoch = [c \in cards |-> [k \in Keys |-> 0]]
  /\ handlers = [h \in Handlers |-> IdleHandler]
  /\ runs = [r \in Runs |-> NoRun]
  /\ admin = NoAdmin
  /\ editor = [pc |-> "idle", card |-> "None", code |-> 0]

PipelineInit ==
  /\ cards = {"c1"}
  /\ NothingInFlight
  /\ \E sc \in Scenarios :
       /\ labels = [c \in cards |-> StartLabels(sc.start)]
       /\ attached = [c \in cards |-> StartAttached(sc.start)]
       /\ comments = [c \in cards |-> StartComments(sc.start)]
       /\ kv = [c \in cards |-> StartKeys(sc.start)]
       /\ budget = [events |-> sc.events, faults |-> sc.faults, env |-> sc.env]

NoVq == [body |-> <<>>, signature |-> <<>>, callback_url |-> <<>>, result |-> "",
         changed |-> "", was_accepted |-> FALSE, changes |-> 0]
NoRq == [action_type |-> "", labels |-> {}, comment_text |-> "", added_label |-> "",
         out |-> Ignored(""), chan |-> "None", again |-> "None", routed |-> FALSE]

Init == PipelineInit /\ vq = NoVq /\ rq = NoRq

(***************************************************************************)
(* The webhook handler, trello_webhook (src/api/main.py).  A request reads *)
(* the card's labels once and, on routes B and C, does one SET NX; these   *)
(* are its two accesses to shared state, and the two steps of the model.   *)
(* What it does between them (routing) and after the SET NX (queueing the  *)
(* chain) touches nothing another request or a worker can see earlier.     *)
(***************************************************************************)
RequestBody == <<1>>
CallbackUrl == <<2>>
TrelloSignature == B64Encode(HmacSha1(trello_webhook_secret, RequestBody \o CallbackUrl))
\* the x-trello-webhook header: Trello's, absent (""), or holding a byte above 127
HeaderSignatures == {TrelloSignature, <<>>, <<233>>}

EventTypes == {"addLabelToCard", "commentCard", "updateCard"}
AddedLabels == {"SNAP APPROVED", "Snap script"}
CommentTexts == {"**Snap Script Generated**", "make it shorter"}

FreeHandler(h) ==
  /\ handlers[h].pc = "idle"
  /\ \A g \in Handlers : g < h => handlers[g].pc # "idle"

FreeRun(r) ==
  /\ runs[r].kind = "none"
  /\ \A q \in Runs : q < r => runs[q].kind # "none"

Finish(hr, code, status, reason) ==
  [hr EXCEPT !.pc = "done", !.code = code, !.status = status, !.reason = reason,
             !.type = "", !.added = "", !.text = "", !.label_names = {}]

\* start_script_pipeline, start_voice_pipeline (src/workers/tasks/pipeline.py)
\* and revise_script.delay: the first task of the chain is queued
FirstStage(kind) ==
  CASE kind = "script" -> "write_script"
    [] kind = "voice" -> "generate_voice"
    [] kind = "revise" -> "revise_script"

NewRunNotQueued(kind, card, chan, comment) == NoRun
NewRun(kind, card, chan, comment) ==
  [NoRun EXCEPT !.kind = kind, !.card = card, !.chan = chan, !.comment = comment,
                !.stage = FirstStage(kind), !.pc = "start", !.status = "active"]

\* lines 119-124, 138-143, 162-170: the chain is queued and the request answered
Dispatched(hr, r) ==
  [Finish(hr, 200,
          CASE hr.route = "revise" -> "revision_queued"
            [] hr.route = "voice" -> "voice_enqueued"
            [] hr.route = "script" -> "script_enqueued",
          "") EXCEPT !.run = r]

\* lines 61-63: the signature check
Verdict(signature) == verify_trello_signature(RequestBody, signature, CallbackUrl)

NewRequest(type, card, added, text, signature) ==
  [IdleHandler EXCEPT !.type = type, !.card = card, !.verified = Verdict(signature),
     !.added = IF type = "addLabelToCard" THEN added ELSE "",
     !.text = IF type = "commentCard" THEN text ELSE ""]

\* lines 53-80: the request ends before any card is read
Rejected(hr) ==
  \/ hr.verified # "True"
  \/ hr.type \notin relevant_types
  \/ hr.card = "None"

Reject(hr) ==
  IF hr.verified = "TypeError" THEN Finish(hr, 500, "", "")
  ELSE IF hr.verified = "False" THEN Finish(hr, 401, "", "")
  ELSE IF hr.type \notin relevant_types THEN Finish(hr, 200, "ignored", "action_type")
  ELSE Finish(hr, 200, "ignored", "no card_id")

ReceiveRejected(h, type, card, added, text, signature) ==
  /\ FreeHandler(h)
  /\ budget.events > 0
  /\ budget' = [budget EXCEPT !.events = @ - 1]
  /\ LET hr == NewRequest(type, card, added, text, signature)
     IN  /\ Rejected(hr)
         /\ handlers' = [handlers EXCEPT ![h] = Reject(hr)]
  /\ UNCHANGED <<cards, labels, attached, comments, moved, kv, epoch, runs, admin,
                 editor, vq, rq>>

\* lines 53-131, 145-154: the request is verified, the labels are fetched and
\* the event is routed; a revision is queued at once (lines 119-124)
Receive(h, r, type, card, added, text, signature) ==
  /\ FreeHandler(h)
  /\ FreeRun(r)
  /\ budget.events > 0
  /\ budget' = [budget EXCEPT !.events = @ - 1]
  /\ LET hr == NewRequest(type, card, added, text, signature)
     IN  /\ ~Rejected(hr)
         /\ LET label_names == LabelNames(labels[card])
                out == Route(type, label_names, hr.text, hr.added)
            IN  \/ /\ out.route = "none"
                   /\ handlers' = [handlers EXCEPT ![h] =
                        [Finish(hr, 200, out.status, out.reason) EXCEPT !.fetched = TRUE]]
                   /\ runs' = runs
                \/ /\ out.route = "revise"
                   /\ \E ch \in out.channels :
                        /\ handlers' = [handlers EXCEPT ![h] =
                             Dispatched([hr EXCEPT !.route = "revise", !.fetched = TRUE,
                                                   !.chan = get_channel(ch)], r)]
                        /\ runs' = [runs EXCEPT ![r] =
                             [NewRun("revise", card, get_channel(ch), hr.text)
                                EXCEPT !.in_review = Lower(label_review) \in label_names]]
                \/ /\ out.route \in {"voice", "script"}
                   /\ \E ch \in out.channels :
                        handlers' = [handlers EXCEPT ![h] =
                          [hr EXCEPT !.pc = "gate", !.route = out.route, !.fetched = TRUE,
                                     !.chan = get_channel(ch), !.label_names = label_names]]
                   /\ runs' = runs
  /\ UNCHANGED <<cards, labels, attached, comments, moved, kv, epoch, admin, editor,
                 vq, rq>>

\* line 93: resp.raise_for_status() raises and the request ends in a 500
ReceiveFetchFails(h, type, card, added, text, signature) ==
  /\ FreeHandler(h)
  /\ budget.events > 0
  /\ budget.faults > 0
  /\ budget' = [budget EXCEPT !.events = @ - 1, !.faults = @ - 1]
  /\ LET hr == NewRequest(type, card, added, text, signature)
     IN  /\ ~Rejected(hr)
         /\ handlers' = [handlers EXCEPT ![h] = Finish(hr, 500, "", "")]
  /\ UNCHANGED <<cards, labels, attached, comments, moved, kv, epoch, runs, admin,
                 editor, vq, rq>>

\* lines 133-143, 157-170: r.set(f"snap:<stage>:{card_id}", "1", nx=True, ex=86400);
\* the winner queues the chain
Gate(h, r) ==
  /\ handlers[h].pc = "gate"
  /\ FreeRun(r)
  /\ LET hr == handlers[h]
         c == hr.card
         k == hr.route
     IN  IF SetNxCreates(kv, c, k)
         THEN /\ kv' = RedisSet(kv, c, k, "1", LOCK_TTL, "handler")
              /\ handlers' = [handlers EXCEPT ![h] =
                   [Dispatched(hr, r) EXCEPT !.won = TRUE, !.epoch = epoch[c][k],
                                             !.holder = "handler"]]
              /\ runs' = [runs EXCEPT ![r] =
                   [NewRun(k, c, hr.chan, "")
                      EXCEPT !.in_review = Lower(label_review) \in hr.label_names]]
         ELSE /\ kv' = kv
              /\ handlers' = [handlers EXCEPT ![h] =
                   [Finish(hr, 200, "ignored",
                           IF k = "voice" THEN "voice already processing"
                           ELSE "already processing")
                      EXCEPT !.epoch = epoch[c][k], !.holder = kv[c][k].by]]
              /\ runs' = runs
  /\ UNCHANGED <<cards, labels, attached, comments, moved, epoch, admin, editor,
                 budget, vq, rq>>

(***************************************************************************)
(* The environment: the card's owner, the clock, the operator, the editor. *)
(***************************************************************************)
HumanLabels == {"Snap Approved"}

HumanAddsLabel(c, l) ==
  /\ l \notin labels[c]
  /\ labels' = [labels EXCEPT ![c] = @ \cup {l}]
  /\ UNCHANGED <<cards, attached, comments, moved, kv, epoch, handlers, runs, admin,
                 editor, budget, vq, rq>>

\* one day passes: Redis drops the keys whose expiry is reached
Tick ==
  /\ budget.env > 0
  /\ budget' = [budget EXCEPT !.env = @ - 1]
  /\ kv' = [c \in cards |-> [k \in Keys |->
              IF kv[c][k].ttl <= 1 THEN Absent ELSE [kv[c][k] EXCEPT !.ttl = @ - 1]]]
  /\ epoch' = [c \in cards |-> [k \in Keys |->
              IF kv[c][k].ttl = 1 THEN epoch[c][k] + 1 ELSE epoch[c][k]]]
  /\ runs' = [r \in Runs |->
              IF runs[r].kind # "none" /\ kv[runs[r].card]["audio"].ttl = 1
              THEN [runs[r] EXCEPT !.audio_deleted = TRUE] ELSE runs[r]]
  /\ UNCHANGED <<cards, labels, attached, comments, moved, handlers, admin, editor,
                 vq, rq>>

\* reset_card (src/api/main.py lines 35-42): three r.delete calls, then the reply
ResetOrderWithoutVoice == <<"script", "audio", "audio">>
ResetOrder == <<"script", "voice", "audio">>

\* the keys a delete of card c's key k must leave as they were
Framed(store, c, k) ==
  /\ \A c2 \in cards \ {c} : store[c2] = kv[c2]
  /\ \A k2 \in Keys \ {k} : store[c][k2] = kv[c][k2]

AdminReset(c) ==
  /\ admin.pc = "idle"
  /\ budget.env > 0
  /\ budget' = [budget EXCEPT !.env = @ - 1]
  /\ LET k == ResetOrder[1]
         store == RedisDelete(kv, c, k)
     IN  /\ kv' = store
         /\ epoch' = IF Exists(c, k) THEN EndLifetime(epoch, c, k) ELSE epoch
         /\ admin' = [pc |-> "d2", card |-> c,
                      keys_deleted |-> IF Exists(c, k) THEN 1 ELSE 0,
                      before |-> {k2 \in Keys : Exists(c, k2)},
                      seen |-> store[c], alone |-> TRUE,
                      frame |-> Framed(store, c, k), left |-> {}]
  /\ UNCHANGED <<cards, labels, attached, comments, moved, handlers, runs, editor,
                 vq, rq>>

AdminDelete(i) ==
  /\ admin.pc = <<"d1", "d2", "d3">>[i]
  /\ LET c == admin.card
         k == ResetOrder[i]
         store == RedisDelete(kv, c, k)
     IN  /\ kv' = store
         /\ epoch' = IF Exists(c, k) THEN EndLifetime(epoch, c, k) ELSE epoch
         /\ admin' = [admin EXCEPT
              !.pc = <<"d2", "d3", "idle">>[i],
              !.keys_deleted = @ + (IF Exists(c, k) THEN 1 ELSE 0),
              !.alone = @ /\ kv[c] = admin.seen,
              !.frame = @ /\ Framed(store, c, k),
              !.seen = IF i = 3 THEN NoAdmin.seen ELSE store[c],
              !.left = IF i = 3 THEN {k2 \in Keys : store[c][k2].ttl > 0} ELSE {}]
         /\ runs' = [r \in Runs |->
              IF k = "audio" /\ Exists(c, k) /\ runs[r].card = c
              THEN [runs[r] EXCEPT !.audio_deleted = TRUE] ELSE runs[r]]
  /\ UNCHANGED <<cards, labels, attached, comments, moved, handlers, editor, budget,
                 vq, rq>>

\* save_script (src/api/script_editor.py lines 176-218)
EditorSave(c, script) ==
  /\ editor.pc = "idle"
  /\ budget.env > 0
  /\ budget' = [budget EXCEPT !.env = @ - 1]
  /\ editor' = IF script = "" THEN [pc |-> "idle", card |-> c, code |-> 400]
               ELSE IF ~Exists(c, "script") THEN [pc |-> "idle", card |-> c, code |-> 404]
               ELSE [pc |-> "set", card |-> c, code |-> 0]
  /\ UNCHANGED <<cards, labels, attached, comments, moved, kv, epoch, handlers, runs,
                 admin, vq, rq>>

\* line 187, then the two posts to Trello of lines 190-213, of which n succeed;
\* an exception is logged and the save still answers.  No request or task
\* branches on attachments or comments, so the posts are taken with the write.
EditorSet(n) ==
  /\ editor.pc = "set"
  /\ n = 2 \/ budget.faults > 0
  /\ budget' = IF n = 2 THEN budget ELSE [budget EXCEPT !.faults = @ - 1]
  /\ kv' = RedisSet(kv, editor.card, "script", "edited", SCRIPT_TTL, "editor")
  /\ attached' = IF n >= 1
                 THEN [attached EXCEPT ![editor.card] = @ \cup {<<"script.txt", "edited">>}]
                 ELSE attached
  /\ comments' = IF n >= 2
                 THEN [comments EXCEPT ![editor.card] = @ \cup {"**Script Manually Edited**"}]
                 ELSE comments
  /\ editor' = [editor EXCEPT !.pc = "idle", !.code = 200]
  /\ UNCHANGED <<cards, labels, moved, epoch, handlers, runs, admin, vq, rq>>

(***************************************************************************)
(* Celery: retries, chains and the error callback.                         *)
(***************************************************************************)
\* max_retries of the task decorators
MaxRetries(stage) ==
  CASE stage = "write_script" -> WRITE_MAX_RETRIES
    [] stage = "revise_script" -> REVISE_MAX_RETRIES
    [] stage = "generate_voice" -> VOICE_MAX_RETRIES
    [] stage = "deliver" -> DELIVER_MAX_RETRIES

\* apply_async(link_error=on_pipeline_error.si(...)) is given to the two chains;
\* revise_script.delay(...) has no error callback
HasLinkError(kind) == kind \in {"script", "voice"}

\* default_retry_delay of the task decorators
default_retry_delay(stage) ==
  CASE stage = "write_script" -> WRITE_RETRY_DELAY
    [] stage = "revise_script" -> REVISE_RETRY_DELAY
    [] stage = "generate_voice" -> VOICE_RETRY_DELAY
    [] stage = "deliver" -> DELIVER_RETRY_DELAY

\* a task starts over: its local variables are fresh
NewAttempt(run) ==
  [run EXCEPT !.pc = "start", !.script = "nil", !.audio = "nil", !.stats = {},
              !.stale = FALSE, !.read_ok = FALSE, !.delay = 0]

\* the task ends in failure: the chain stops and its error callback is called
TaskFailedContinuingChain(run) ==
  IF run.stage = "generate_voice"
  THEN [NewAttempt(run) EXCEPT !.stage = "deliver", !.retries = 0]
  ELSE [NewAttempt(run) EXCEPT !.pc = "end", !.status = "failed",
           !.errback = IF HasLinkError(run.kind) THEN "pending" ELSE "none",
           !.escalations = @ + (IF HasLinkError(run.kind) THEN 1 ELSE 0)]
TaskFailed(run) ==
  [NewAttempt(run) EXCEPT !.pc = "end", !.status = "failed",
     !.errback = IF HasLinkError(run.kind) THEN "pending" ELSE "none",
     !.escalations = @ + (IF HasLinkError(run.kind) THEN 1 ELSE 0)]

\* raise self.retry(exc=exc): the task is queued again until max_retries is
\* used up, then the exception ends the task.  No countdown is passed, so the
\* retry is scheduled default_retry_delay seconds ahead (delay).
RetryEscalatingEachAttempt(run) ==
  IF run.retries < MaxRetries(run.stage)
  THEN [NewAttempt(run) EXCEPT !.retries = @ + 1,
           !.errback = IF HasLinkError(run.kind) THEN "pending" ELSE "none",
           !.escalations = @ + (IF HasLinkError(run.kind) THEN 1 ELSE 0)]
  ELSE TaskFailed(run)
RetryWithoutCap(run) == [NewAttempt(run) EXCEPT !.retries = @ + 1]
Retry(run) ==
  IF run.retries < MaxRetries(run.stage)
  THEN [NewAttempt(run) EXCEPT !.retries = @ + 1,
                               !.delay = default_retry_delay(run.stage)]
  ELSE TaskFailed(run)

\* raise ValueError(...) ahead of the task's try block: self.retry is not reached
PreconditionRetried(run) == Retry(run)
PreconditionFailed(run) == TaskFailed(run)

\* the task returns: the chain's next task is queued, or the chain is complete
TaskSucceeded(run, result) ==
  IF run.stage = "generate_voice"
  THEN [NewAttempt(run) EXCEPT !.stage = "deliver", !.retries = 0, !.voice_done = TRUE]
  ELSE [NewAttempt(run) EXCEPT !.pc = "end", !.status = "success", !.result = result]

At(r, stage, pc) ==
  /\ runs[r].status = "active"
  /\ runs[r].stage = stage
  /\ runs[r].pc = pc

\* the steps that are one external call (Trello, Claude, ElevenLabs) made inside
\* the task's try block
ExternalCalls(stage) ==
  CASE stage = "write_script" -> {"w_add", "w_review"}
    [] stage = "revise_script" -> {"r_generate"}
    [] stage = "generate_voice" -> {"g_label", "g_tts"}
    [] OTHER -> {}

\* the labels a task's except branch adds to the card: it logs and retries,
\* and makes no Trello call
ExceptLabelsMarkingError == {label_error}
ExceptLabels == {}

\* the call raises: except Exception as exc: raise self.retry(exc=exc)
CallFails(r) ==
  /\ runs[r].status = "active"
  /\ runs[r].pc \in ExternalCalls(runs[r].stage)
  /\ budget.faults > 0
  /\ budget' = [budget EXCEPT !.faults = @ - 1]
  /\ runs' = [runs EXCEPT ![r] = Retry(@)]
  /\ labels' = [labels EXCEPT ![runs[r].card] = @ \cup ExceptLabels]
  /\ UNCHANGED <<cards, attached, comments, moved, kv, epoch, handlers,
                 admin, editor, vq, rq>>

(***************************************************************************)
(* write_script (src/workers/tasks/script.py lines 15-160).                *)
(***************************************************************************)
skip_labels ==
  {Lower(label_review), Lower(label_approved), Lower(label_generating_voice),
   Lower(label_done)}

\* current_labels & skip_labels
Overlap(c) == LabelNames(labels[c]) \cap skip_labels

StatsFields(stage) ==
  CASE stage = "write_script" -> {"script"}
    [] stage = "generate_voice" -> {"voice"}
    [] stage = "deliver" -> {"deliver"}

\* json.dumps(stats) and json.loads(stats_raw): the stages whose fields the
\* stored object holds
JsonDumps(stats) ==
  CASE stats = {} -> "{}"
    [] stats = {"script"} -> "{script}"
    [] stats = {"voice"} -> "{voice}"
    [] stats = {"deliver"} -> "{deliver}"
    [] stats = {"script", "voice"} -> "{script,voice}"
    [] stats = {"script", "deliver"} -> "{script,deliver}"
    [] stats = {"voice", "deliver"} -> "{voice,deliver}"
    [] stats = {"script", "voice", "deliver"} -> "{script,voice,deliver}"
JsonLoads(raw) ==
  CHOOSE stats \in SUBSET {"script", "voice", "deliver"} : JsonDumps(stats) = raw

\* stats = json.loads(stats_raw) if stats_raw else {}
ReadStats(store, c) ==
  IF store[c]["stats"].ttl > 0 THEN JsonLoads(store[c]["stats"].val) ELSE {}

\* stats.update(...); r.set(key, json.dumps(stats), ex=SCRIPT_TTL)
MergeStats(store, c, fields) ==
  RedisSet(store, c, "stats", JsonDumps(ReadStats(store, c) \cup fields),
           SCRIPT_TTL, "stage")

\* r.set(f"snap:script:{card_id}", script, ex=SCRIPT_TTL)
StoreScriptNowhere(store, c, script) == store
StoreScript(store, c, script) == RedisSet(store, c, "script", script, SCRIPT_TTL, "stage")

\* lines 35-53: the guard against a stale queued task
GuardIgnoringLabels(run, overlap) ==
  [run EXCEPT !.pc = "w_add", !.stale = overlap # {}, !.read_ok = TRUE]
Guard(run, overlap) ==
  IF overlap # {}
  THEN [TaskSucceeded(run, "skipped") EXCEPT !.stale = TRUE, !.read_ok = TRUE]
  ELSE [run EXCEPT !.pc = "w_add", !.stale = FALSE, !.read_ok = TRUE]

WriteGuard(r) ==
  /\ At(r, "write_script", "start")
  /\ runs' = [runs EXCEPT ![r] = Guard(@, Overlap(@.card))]
  /\ UNCHANGED <<cards, labels, attached, comments, moved, kv, epoch, handlers,
                 admin, editor, budget, vq, rq>>

\* lines 52-53: the label read raises, and the task proceeds
WriteGuardReadFails(r) ==
  /\ At(r, "write_script", "start")
  /\ budget.faults > 0
  /\ budget' = [budget EXCEPT !.faults = @ - 1]
  /\ runs' = [runs EXCEPT ![r] =
       [@ EXCEPT !.pc = "w_add", !.stale = Overlap(runs[r].card) # {}, !.read_ok = FALSE]]
  /\ UNCHANGED <<cards, labels, attached, comments, moved, kv, epoch, handlers,
                 admin, editor, vq, rq>>

\* line 57
WriteAddsWriting(r) ==
  /\ At(r, "write_script", "w_add")
  /\ labels' = [labels EXCEPT ![runs[r].card] = @ \cup {label_writing}]
  /\ runs' = [runs EXCEPT ![r].pc = "w_post"]
  /\ UNCHANGED <<cards, attached, comments, moved, kv, epoch, handlers, admin,
                 editor, budget, vq, rq>>

\* lines 60-122: the card, its links and attachments are read and Claude writes
\* the script (a failure there is n = 0); then script.txt and research.txt are
\* uploaded, the comment is posted and "Snap: Writing Script" is removed.  No
\* request or task branches on attachments, comments or that label, so the
\* four calls are one step, of which the first n succeed.
WritePosts(r, n) ==
  /\ At(r, "write_script", "w_post")
  /\ n = 4 \/ budget.faults > 0
  /\ budget' = IF n = 4 THEN budget ELSE [budget EXCEPT !.faults = @ - 1]
  /\ attached' = [attached EXCEPT ![runs[r].card] = @ \cup
       (IF n >= 1 THEN {<<"script.txt", "draft">>} ELSE {}) \cup
       (IF n >= 2 THEN {<<"research.txt", "research">>} ELSE {})]
  /\ comments' = IF n >= 3
                 THEN [comments EXCEPT ![runs[r].card] = @ \cup {"**Snap Script Generated**"}]
                 ELSE comments
  /\ labels' = IF n >= 4 THEN [labels EXCEPT ![runs[r].card] = @ \ {label_writing}]
               ELSE labels
  /\ runs' = [runs EXCEPT ![r] =
       IF n = 4 THEN [@ EXCEPT !.pc = "w_review", !.script = "draft"] ELSE Retry(@)]
  /\ UNCHANGED <<cards, moved, kv, epoch, handlers, admin, editor, vq, rq>>

\* line 123
WriteAddsReview(r) ==
  /\ At(r, "write_script", "w_review")
  /\ labels' = [labels EXCEPT ![runs[r].card] = @ \cup {label_review}]
  /\ runs' = [runs EXCEPT ![r].pc = "w_store"]
  /\ UNCHANGED <<cards, attached, comments, moved, kv, epoch, handlers, admin,
                 editor, budget, vq, rq>>

\* line 136
WriteStores(r) ==
  /\ At(r, "write_script", "w_store")
  /\ kv' = StoreScript(kv, runs[r].card, runs[r].script)
  /\ runs' = [runs EXCEPT ![r].pc = "w_stats"]
  /\ UNCHANGED <<cards, labels, attached, comments, moved, epoch, handlers, admin,
                 editor, budget, vq, rq>>

\* lines 139-157
WriteMergesStats(r) ==
  /\ At(r, "write_script", "w_stats")
  /\ kv' = MergeStats(kv, runs[r].card, StatsFields("write_script"))
  /\ runs' = [runs EXCEPT ![r] = TaskSucceeded(@, "script")]
  /\ UNCHANGED <<cards, labels, attached, comments, moved, epoch, handlers, admin,
                 editor, budget, vq, rq>>

(***************************************************************************)
(* revise_script (src/workers/tasks/script.py lines 163-228).              *)
(***************************************************************************)
\* what Claude returns for the text it is given to revise
Revised(current_script) == IF current_script = "1" THEN "revised 1" ELSE "revised"

\* lines 183-187: the ValueError is raised inside the try block of line 217
ReviseReads(r) ==
  /\ At(r, "revise_script", "start")
  /\ runs' = [runs EXCEPT ![r] =
       IF Exists(@.card, "script")
       THEN [@ EXCEPT !.pc = "r_generate", !.script = kv[runs[r].card]["script"].val]
       ELSE [Retry(@) EXCEPT !.script_missing = TRUE]]
  /\ UNCHANGED <<cards, labels, attached, comments, moved, kv, epoch, handlers,
                 admin, editor, budget, vq, rq>>

\* lines 189-200: Claude revises the text that was read, and the result is stored
ReviseGenerates(r) ==
  /\ At(r, "revise_script", "r_generate")
  /\ kv' = StoreScript(kv, runs[r].card, Revised(runs[r].script))
  /\ runs' = [runs EXCEPT ![r].pc = "r_post", ![r].script = Revised(@)]
  /\ UNCHANGED <<cards, labels, attached, comments, moved, epoch, handlers, admin,
                 editor, budget, vq, rq>>

\* lines 202-225: script.txt is uploaded and the comment posted; the first n of
\* the two calls succeed
RevisePosts(r, n) ==
  /\ At(r, "revise_script", "r_post")
  /\ n = 2 \/ budget.faults > 0
  /\ budget' = IF n = 2 THEN budget ELSE [budget EXCEPT !.faults = @ - 1]
  /\ attached' = IF n >= 1
                 THEN [attached EXCEPT ![runs[r].card] = @ \cup {<<"script.txt", runs[r].script>>}]
                 ELSE attached
  /\ comments' = IF n >= 2
                 THEN [comments EXCEPT ![runs[r].card] = @ \cup {"**Snap Script Revised**"}]
                 ELSE comments
  /\ runs' = [runs EXCEPT ![r] = IF n = 2 THEN TaskSucceeded(@, "revised") ELSE Retry(@)]
  /\ UNCHANGED <<cards, labels, moved, kv, epoch, handlers, admin, editor, vq, rq>>

(***************************************************************************)
(* generate_voice (src/workers/tasks/deliver.py lines 16-79).              *)
(***************************************************************************)
\* lines 35-40: the ValueError is raised before the try block: no retry
VoiceReads(r) ==
  /\ At(r, "generate_voice", "start")
  /\ runs' = [runs EXCEPT ![r] =
       IF Exists(@.card, "script")
       THEN [@ EXCEPT !.pc = "g_label", !.script = kv[runs[r].card]["script"].val]
       ELSE [PreconditionFailed(@) EXCEPT !.script_missing = TRUE]]
  /\ UNCHANGED <<cards, labels, attached, comments, moved, kv, epoch, handlers,
                 admin, editor, budget, vq, rq>>

\* line 44
VoiceAddsLabel(r) ==
  /\ At(r, "generate_voice", "g_label")
  /\ labels' = [labels EXCEPT ![runs[r].card] = @ \cup {label_generating_voice}]
  /\ runs' = [runs EXCEPT ![r].pc = "g_tts"]
  /\ UNCHANGED <<cards, attached, comments, moved, kv, epoch, handlers, admin,
                 editor, budget, vq, rq>>

\* line 59: r.set(f"snap:audio:{card_id}", audio_b64, ex=AUDIO_TTL)
StoreAudioNowhere(store, c, audio) == store
StoreAudio(store, c, audio) == RedisSet(store, c, "audio", audio, AUDIO_TTL, "stage")

\* lines 47-59: ElevenLabs turns the text into audio, and the audio is stored
VoiceSynthesizes(r) ==
  /\ At(r, "generate_voice", "g_tts")
  /\ kv' = StoreAudio(kv, runs[r].card, runs[r].script)
  /\ runs' = [runs EXCEPT ![r].pc = "g_stats", ![r].audio = runs[r].script,
                          ![r].audio_deleted = FALSE]
  /\ UNCHANGED <<cards, labels, attached, comments, moved, epoch, handlers, admin,
                 editor, budget, vq, rq>>

\* lines 62-76
VoiceMergesStats(r) ==
  /\ At(r, "generate_voice", "g_stats")
  /\ kv' = MergeStats(kv, runs[r].card, StatsFields("generate_voice"))
  /\ runs' = [runs EXCEPT ![r] = TaskSucceeded(@, "voice_generated")]
  /\ UNCHANGED <<cards, labels, attached, comments, moved, epoch, handlers, admin,
                 editor, budget, vq, rq>>

(***************************************************************************)
(* deliver (src/workers/tasks/deliver.py lines 82-156).                    *)
(***************************************************************************)
\* lines 100-103: the ValueError is raised before the try block: no retry
DeliverReadsAudio(r) ==
  /\ At(r, "deliver", "start")
  /\ runs' = [runs EXCEPT ![r] =
       IF Exists(@.card, "audio")
       THEN [@ EXCEPT !.pc = "d_read", !.audio = kv[runs[r].card]["audio"].val,
                      !.deliver_started = TRUE]
       ELSE [PreconditionFailed(@) EXCEPT !.audio_missing = TRUE,
                                          !.deliver_started = TRUE]]
  /\ UNCHANGED <<cards, labels, attached, comments, moved, kv, epoch, handlers,
                 admin, editor, budget, vq, rq>>

\* lines 106-112
DeliverReadsScript(r) ==
  /\ At(r, "deliver", "d_read")
  /\ runs' = [runs EXCEPT ![r].pc = "d_post",
                          ![r].script = kv[runs[r].card]["script"].val,
                          ![r].stats = ReadStats(kv, runs[r].card)]
  /\ UNCHANGED <<cards, labels, attached, comments, moved, kv, epoch, handlers,
                 admin, editor, budget, vq, rq>>

\* lines 116-133: voice.mp3 is uploaded, script.txt too when the script was
\* found, the comment is posted and the card is moved; the first n of the four
\* steps succeed
DeliverPosts(r, n) ==
  /\ At(r, "deliver", "d_post")
  /\ n = 4 \/ budget.faults > 0
  /\ budget' = IF n = 4 THEN budget ELSE [budget EXCEPT !.faults = @ - 1]
  /\ attached' = [attached EXCEPT ![runs[r].card] = @ \cup
       (IF n >= 1 THEN {<<"voice.mp3", runs[r].audio>>} ELSE {}) \cup
       (IF n >= 2 /\ runs[r].script # "nil"
        THEN {<<"script.txt", runs[r].script>>} ELSE {})]
  /\ comments' = IF n >= 3
                 THEN [comments EXCEPT ![runs[r].card] = @ \cup {"**Snap Delivered**"}]
                 ELSE comments
  /\ moved' = IF n >= 4 THEN [moved EXCEPT ![runs[r].card] = TRUE] ELSE moved
  /\ runs' = [runs EXCEPT ![r] =
       [(IF n = 4 THEN [@ EXCEPT !.pc = "d_labels"] ELSE Retry(@))
          EXCEPT !.audio_attachments = @ + (IF n >= 1 THEN 1 ELSE 0),
                 !.completion_comments = @ + (IF n >= 3 THEN 1 ELSE 0)]]
  /\ UNCHANGED <<cards, labels, kv, epoch, handlers, admin, editor, vq, rq>>

\* lines 136-140: four removals, then "Snap: Done"; n of the five calls succeed
Cleanup == <<"Snap script", label_review, label_approved, label_generating_voice>>

DeliverCleansLabels(r, n) ==
  /\ At(r, "deliver", "d_labels")
  /\ n = 5 \/ budget.faults > 0
  /\ budget' = IF n = 5 THEN budget ELSE [budget EXCEPT !.faults = @ - 1]
  /\ labels' = [labels EXCEPT ![runs[r].card] =
       (@ \ {l \in @ : \E i \in 1..4 : i <= n /\ Lower(l) = Lower(Cleanup[i])})
       \cup (IF n = 5 THEN {label_done} ELSE {})]
  /\ runs' = [runs EXCEPT ![r] = IF n = 5 THEN [@ EXCEPT !.pc = "d_stats"] ELSE Retry(@)]
  /\ UNCHANGED <<cards, attached, comments, moved, kv, epoch, handlers, admin,
                 editor, vq, rq>>

\* lines 146-148
DeliverStoresStats(r) ==
  /\ At(r, "deliver", "d_stats")
  /\ kv' = RedisSet(kv, runs[r].card, "stats",
                    JsonDumps(runs[r].stats \cup StatsFields("deliver")), SCRIPT_TTL, "stage")
  /\ runs' = [runs EXCEPT ![r].pc = "d_delete"]
  /\ UNCHANGED <<cards, labels, attached, comments, moved, epoch, handlers, admin,
                 editor, budget, vq, rq>>

\* line 151: r.delete(f"snap:audio:{card_id}")
DeliverDeletedKeysWithLock == {"audio", "voice"}
DeliverDeletedKeysNone == {}
DeliverDeletedKeys == {"audio"}

DeliverDeletesAudio(r) ==
  /\ At(r, "deliver", "d_delete")
  /\ LET c == runs[r].card
     IN  /\ kv' = [kv EXCEPT ![c] =
                    [k \in Keys |-> IF k \in DeliverDeletedKeys THEN Absent ELSE @[k]]]
         /\ epoch' = IF Exists(c, "audio") THEN EndLifetime(epoch, c, "audio") ELSE epoch
         /\ runs' = [q \in Runs |->
              IF q = r THEN TaskSucceeded(runs[r], "delivered")
              ELSE IF runs[q].card = c /\ Exists(c, "audio")
                   THEN [runs[q] EXCEPT !.audio_deleted = TRUE]
                   ELSE runs[q]]
  /\ UNCHANGED <<cards, labels, attached, comments, moved, handlers, admin, editor,
                 budget, vq, rq>>

(***************************************************************************)
(* on_pipeline_error (src/workers/tasks/pipeline.py lines 38-62).          *)
(***************************************************************************)
\* lines 53-62: the error label is added and the comment posted; the first n of
\* the two calls succeed, and an exception is logged and swallowed
\* lines 59-62: try: run_async(_handle_error()); except Exception: logged
EscalatorOutcomeRaising(n) == IF n = 2 THEN "done" ELSE "failed"
EscalatorOutcome(n) == "done"

\* lines 53-57: the label is added, then the comment is posted; the first n of
\* the two calls succeed
EscalatorEffectsCommentFirst(n) == [label |-> n >= 2, comment |-> n >= 1]
EscalatorEffects(n) == [label |-> n >= 1, comment |-> n >= 2]

\* esc_label and esc_comments record what this call of the callback did
Escalator(r, n) ==
  /\ runs[r].errback = "pending"
  /\ n = 2 \/ budget.faults > 0
  /\ budget' = IF n = 2 THEN budget ELSE [budget EXCEPT !.faults = @ - 1]
  /\ labels' = IF EscalatorEffects(n).label
               THEN [labels EXCEPT ![runs[r].card] = @ \cup {label_error}]
               ELSE labels
  /\ comments' = IF EscalatorEffects(n).comment
                 THEN [comments EXCEPT ![runs[r].card] = @ \cup {"**Snap Pipeline Error**"}]
                 ELSE comments
  /\ runs' = [runs EXCEPT ![r].errback = EscalatorOutcome(n),
                          ![r].esc_label = EscalatorEffects(n).label,
                          ![r].esc_comments = @ + (IF EscalatorEffects(n).comment THEN 1 ELSE 0)]
  /\ UNCHANGED <<cards, attached, moved, kv, epoch, handlers, admin, editor, vq, rq>>

(***************************************************************************)
(* The pipeline: every request, task and environment step.                 *)
(***************************************************************************)
Next ==
  \/ \E h \in Handlers, type \in EventTypes, card \in cards \cup {"None"},
        added \in AddedLabels, text \in CommentTexts, sig \in HeaderSignatures :
       ReceiveRejected(h, type, card, added, text, sig)
  \/ \E h \in Handlers, r \in Runs, type \in EventTypes, card \in cards,
        added \in AddedLabels, text \in CommentTexts, sig \in HeaderSignatures :
       Receive(h, r, type, card, added, text, sig)
  \/ \E h \in Handlers, type \in EventTypes, card \in cards,
        added \in AddedLabels, text \in CommentTexts, sig \in HeaderSignatures :
       ReceiveFetchFails(h, type, card, added, text, sig)
  \/ \E h \in Handlers, r \in Runs : Gate(h, r)
  \/ \E c \in cards, l \in HumanLabels : HumanAddsLabel(c, l)
  \/ Tick
  \/ \E c \in cards : AdminReset(c)
  \/ \E i \in 2..3 : AdminDelete(i)
  \/ \E c \in cards, script \in {"", "edited"} : EditorSave(c, script)
  \/ \E n \in 0..2 : EditorSet(n)
  \/ \E r \in Runs : CallFails(r)
  \/ \E r \in Runs : WriteGuard(r)
  \/ \E r \in Runs : WriteGuardReadFails(r)
  \/ \E r \in Runs : WriteAddsWriting(r)
  \/ \E r \in Runs, n \in 0..4 : WritePosts(r, n)
  \/ \E r \in Runs : WriteAddsReview(r)
  \/ \E r \in Runs : WriteStores(r)
  \/ \E r \in Runs : WriteMergesStats(r)
  \/ \E r \in Runs : ReviseReads(r)
  \/ \E r \in Runs : ReviseGenerates(r)
  \/ \E r \in Runs, n \in 0..2 : RevisePosts(r, n)
  \/ \E r \in Runs : VoiceReads(r)
  \/ \E r \in Runs : VoiceAddsLabel(r)
  \/ \E r \in Runs : VoiceSynthesizes(r)
  \/ \E r \in Runs : VoiceMergesStats(r)
  \/ \E r \in Runs : DeliverReadsAudio(r)
  \/ \E r \in Runs : DeliverReadsScript(r)
  \/ \E r \in Runs, n \in 0..4 : DeliverPosts(r, n)
  \/ \E r \in Runs, n \in 0..5 : DeliverCleansLabels(r, n)
  \/ \E r \in Runs : DeliverStoresStats(r)
  \/ \E r \in Runs : DeliverDeletesAudio(r)
  \/ \E r \in Runs, n \in 0..2 : Escalator(r, n)

Spec == Init /\ [][Next]_vars

\* the Celery workers (task_acks_late, src/workers/celery_app.py): a task or
\* callback that is queued is run
WorkerStep ==
  \/ \E r \in Runs : WriteGuard(r)
  \/ \E r \in Runs : WriteAddsWriting(r)
  \/ \E r \in Runs : WritePosts(r, 4)
  \/ \E r \in Runs : WriteAddsReview(r)
  \/ \E r \in Runs : WriteStores(r)
  \/ \E r \in Runs : WriteMergesStats(r)
  \/ \E r \in Runs : ReviseReads(r)
  \/ \E r \in Runs : ReviseGenerates(r)
  \/ \E r \in Runs : RevisePosts(r, 2)
  \/ \E r \in Runs : VoiceReads(r)
  \/ \E r \in Runs : VoiceAddsLabel(r)
  \/ \E r \in Runs : VoiceSynthesizes(r)
  \/ \E r \in Runs : VoiceMergesStats(r)
  \/ \E r \in Runs : DeliverReadsAudio(r)
  \/ \E r \in Runs : DeliverReadsScript(r)
  \/ \E r \in Runs : DeliverPosts(r, 4)
  \/ \E r \in Runs : DeliverCleansLabels(r, 5)
  \/ \E r \in Runs : DeliverStoresStats(r)
  \/ \E r \in Runs : DeliverDeletesAudio(r)
  \/ \E r \in Runs, n \in 0..2 : Escalator(r, n)
  \/ \E h \in Handlers, r \in Runs : Gate(h, r)

\* the pipeline with workers that are scheduled fairly
SpecLive == Spec /\ WF_vars(WorkerStep)

(***************************************************************************)
(* The admin reset on a board of two cards, beside a day passing and an    *)
(* editor save; the cards' keys begin in every combination the pipeline    *)
(* leaves behind.                                                          *)
(***************************************************************************)
\* what each key of a card can hold between two runs
ResetKeys ==
  {[k \in Keys |-> CASE k = "script" -> script [] k = "voice" -> voice
                     [] k = "audio" -> audio [] k = "stats" -> stats] :
     script \in {Absent, [val |-> "1", ttl |-> LOCK_TTL, by |-> "handler"],
                 [val |-> "draft", ttl |-> SCRIPT_TTL, by |-> "earlier"]},
     voice \in {Absent, [val |-> "1", ttl |-> LOCK_TTL, by |-> "handler"]},
     audio \in {Absent, [val |-> "audio", ttl |-> AUDIO_TTL, by |-> "stage"]},
     stats \in {Absent, [val |-> "{script}", ttl |-> SCRIPT_TTL, by |-> "earlier"]}}

InitReset ==
  /\ cards = {"c1", "c2"}
  /\ NothingInFlight
  /\ labels = [c \in cards |-> StartLabels("review")]
  /\ attached = [c \in cards |-> StartAttached("review")]
  /\ comments = [c \in cards |-> StartComments("review")]
  /\ kv \in [cards -> ResetKeys]
  /\ budget = [events |-> 0, faults |-> 1, env |-> MaxEnv + 1]
  /\ vq = NoVq
  /\ rq = NoRq

NextReset ==
  \/ \E c \in cards : AdminReset(c)
  \/ \E i \in 2..3 : AdminDelete(i)
  \/ Tick
  \/ \E c \in cards, script \in {"", "edited"} : EditorSave(c, script)
  \/ \E n \in 0..2 : EditorSet(n)

SpecReset == InitReset /\ [][NextReset]_vars

(***************************************************************************)
(* The verifier alone: verify_trello_signature applied to a triple, and to *)
(* the triples that one change of the body, the URL or the signature       *)
(* makes of it.                                                            *)
(***************************************************************************)
\* what the x-trello-webhook header can hold: the signature of some content
\* under the secret, nothing, or text with a character above 127
SignaturesUpTo(n) ==
  {B64Encode(HmacSha1(trello_webhook_secret, m)) : m \in BytesUpTo(n)}
  \cup {<<>>, <<233>>}

\* no request, task or environment step: the pipeline at rest
PipelineAtRest ==
  /\ PipelineInit
  /\ budget = [events |-> MaxEvents, faults |-> 0, env |-> MaxEnv]
  /\ labels = [c \in cards |-> StartLabels("new")]

InitSig ==
  /\ PipelineAtRest
  /\ rq = NoRq
  /\ \E body \in BytesUpTo(MaxLen), callback_url \in BytesUpTo(MaxLen),
        signature \in SignaturesUpTo(MaxLen) :
       vq = [NoVq EXCEPT !.body = body, !.callback_url = callback_url,
                         !.signature = signature]

Verify ==
  /\ vq.result = ""
  /\ vq' = [vq EXCEPT !.result =
              verify_trello_signature(vq.body, vq.signature, vq.callback_url)]
  /\ UNCHANGED <<pipelineVars, rq>>

Changed(what) ==
  [vq EXCEPT !.result = "", !.changed = what, !.was_accepted = (vq.result = "True"),
             !.changes = @ + 1]

ChangeBody(body) ==
  /\ vq.result # ""
  /\ vq.changes < MaxMutations
  /\ body # vq.body
  /\ vq' = [Changed("body") EXCEPT !.body = body]
  /\ UNCHANGED <<pipelineVars, rq>>

ChangeUrl(callback_url) ==
  /\ vq.result # ""
  /\ vq.changes < MaxMutations
  /\ callback_url # vq.callback_url
  /\ vq' = [Changed("callback_url") EXCEPT !.callback_url = callback_url]
  /\ UNCHANGED <<pipelineVars, rq>>

ChangeSignature(signature) ==
  /\ vq.result # ""
  /\ vq.changes < MaxMutations
  /\ signature # vq.signature
  /\ vq' = [Changed("signature") EXCEPT !.signature = signature]
  /\ UNCHANGED <<pipelineVars, rq>>

NextSig ==
  \/ Verify
  \/ \E body \in BytesUpTo(MaxLen) : ChangeBody(body)
  \/ \E callback_url \in BytesUpTo(MaxLen) : ChangeUrl(callback_url)
  \/ \E signature \in SignaturesUpTo(MaxLen) : ChangeSignature(signature)

SpecSig == InitSig /\ [][NextSig]_vars

(***************************************************************************)
(* The router alone: the routing decision of trello_webhook applied to an  *)
(* event and a label set.                                                  *)
(***************************************************************************)
\* the names of the labels a card may carry; "" is a label without a name
RouterLabels ==
  {"Snap script", "ShowA (Snap)", "ShowB (Snap)", "Ghost (Snap)", label_review, ""}
RouterAddedLabels == AddedLabels \cup {"ShowA (Snap)", label_approved}

InitRoute ==
  /\ PipelineAtRest
  /\ vq = NoVq
  /\ \E action_type \in EventTypes, raw \in SUBSET RouterLabels,
        comment_text \in CommentTexts, added_label \in RouterAddedLabels :
       rq = [NoRq EXCEPT !.action_type = action_type, !.labels = raw,
               !.comment_text = IF action_type = "commentCard" THEN comment_text ELSE "",
               !.added_label = IF action_type = "addLabelToCard" THEN added_label ELSE ""]

\* the event is handled, and the same event is handled once more: each
\* handling takes the channel label its iteration over the label set meets first
RouteEvent ==
  /\ ~rq.routed
  /\ LET out == Route(rq.action_type, LabelNames(rq.labels), rq.comment_text,
                      rq.added_label)
     IN  \E ch, ch2 \in out.channels \cup {"None"} :
           /\ out.channels # {} => (ch # "None" /\ ch2 # "None")
           /\ rq' = [rq EXCEPT !.routed = TRUE, !.out = out,
                               !.chan = get_channel(ch), !.again = get_channel(ch2)]
  /\ UNCHANGED <<pipelineVars, vq>>

NextRoute == RouteEvent

SpecRoute == InitRoute /\ [][NextRoute]_vars

(***************************************************************************)
(* Properties.                                                             *)
(***************************************************************************)
\* request h has gone through the SET NX of stage key k
Gated(h, k) ==
  /\ handlers[h].pc = "done"
  /\ handlers[h].route = k
  /\ handlers[h].holder # "nil"

\* the requests that created card c's key k in its lifetime number e
Winners(c, k, e) ==
  {h \in Handlers : /\ Gated(h, k)
                    /\ handlers[h].card = c
                    /\ handlers[h].epoch = e
                    /\ handlers[h].won}

\* the requests that queued run r
Dispatchers(r) == {h \in Handlers : handlers[h].run = r}

C2_VoiceGateIdempotent ==
  /\ \A h \in Handlers : Gated(h, "voice") =>
       LET hr == handlers[h]
       IN  /\ Cardinality(Winners(hr.card, "voice", hr.epoch)) <= 1
           /\ IF hr.won
              THEN /\ hr.run \in Runs
                   /\ runs[hr.run].kind = "voice"
                   /\ hr.status = "voice_enqueued"
              ELSE /\ hr.run = 0
                   /\ hr.status = "ignored"
                   /\ hr.reason = "voice already processing"
  /\ \A r \in Runs : runs[r].kind = "voice" =>
       /\ runs[r].stage \in {"generate_voice", "deliver"}
       /\ Cardinality(Dispatchers(r)) = 1
       /\ \A h \in Dispatchers(r) : Gated(h, "voice") /\ handlers[h].won

\* two approved-label requests met the same lifetime of the voice key
C2_Witness ==
  \E g, h \in Handlers :
    /\ Gated(g, "voice") /\ Gated(h, "voice")
    /\ handlers[g].epoch = handlers[h].epoch
    /\ handlers[g].won /\ ~handlers[h].won

C4_DeliverAfterVoice ==
  \A r \in Runs : runs[r].kind = "voice" =>
    /\ (runs[r].stage = "deliver" \/ runs[r].deliver_started) => runs[r].voice_done
    /\ (runs[r].status = "failed" /\ ~runs[r].voice_done) =>
         (runs[r].stage = "generate_voice" /\ ~runs[r].deliver_started)

\* a run whose generate_voice returned and whose deliver is executing
C4_Witness ==
  \E r \in Runs :
    /\ runs[r].kind = "voice"
    /\ runs[r].voice_done /\ runs[r].deliver_started
    /\ runs[r].stage = "deliver" /\ runs[r].status = "active"

\* C5 as stated: deliver never finds the audio key missing.
C5_DeliverFindsAudio ==
  \A r \in Runs : ~runs[r].audio_missing

\* C5: when deliver finds the audio key missing, the key that generate_voice of
\* the run stored has since been deleted: by an admin reset, by its expiry, or
\* by the deliver of another run on the card.
C5_AudioMissingOnlyAfterDelete ==
  \A r \in Runs : runs[r].audio_missing => runs[r].audio_deleted

\* generate_voice returned, the key was deleted, and deliver found it missing
C5_Witness ==
  \E r \in Runs :
    /\ runs[r].voice_done
    /\ runs[r].audio_missing /\ runs[r].audio_deleted
    /\ runs[r].status = "failed"

\* C6: a chain queued with the error callback calls it at most once; a chain
\* that failed, its stage having used up its retries or not, called it exactly
\* once; a chain that is executing or has succeeded has not called it.
C6_EscalatesExactlyOnce ==
  \A r \in Runs : HasLinkError(runs[r].kind) =>
    /\ runs[r].escalations <= 1
    /\ runs[r].status = "failed" => runs[r].escalations = 1
    /\ runs[r].status \in {"active", "success"} =>
         (runs[r].escalations = 0 /\ runs[r].errback = "none")

\* a stage of a chain failed on every attempt up to its cap, and the callback
\* has run
C6_Witness ==
  \E r \in Runs :
    /\ HasLinkError(runs[r].kind)
    /\ runs[r].status = "failed"
    /\ runs[r].retries = MaxRetries(runs[r].stage)
    /\ runs[r].errback = "done" /\ runs[r].escalations = 1

\* C7 as stated: every task that failed terminally had the error callback called.
C7_TerminalFailureEscalates ==
  \A r \in Runs : runs[r].status = "failed" => runs[r].escalations >= 1

\* C8 as stated: a request whose signature does not verify is answered 401 and
\* has read no card, created no key and queued nothing.
C8_BadSignatureAnswered401 ==
  \A h \in Handlers :
    (handlers[h].pc = "done" /\ handlers[h].verified # "True") =>
      /\ handlers[h].code = 401
      /\ ~handlers[h].fetched /\ ~handlers[h].won /\ handlers[h].run = 0

Rule2 == rq.action_type = "commentCard" /\ StartsWithBold(rq.comment_text)
Rule3 ==
  /\ rq.action_type = "commentCard"
  /\ Lower(label_review) \in LabelNames(rq.labels)
  /\ get_snap_channel(LabelNames(rq.labels)) # {}
Rule4 ==
  /\ rq.action_type = "addLabelToCard"
  /\ Lower(rq.added_label) = Lower(label_approved)
  /\ get_snap_channel(LabelNames(rq.labels)) # {}
Rule5 ==
  /\ Lower(trigger_label) \in LabelNames(rq.labels)
  /\ get_snap_channel(LabelNames(rq.labels)) # {}

\* C10 as stated: a label-added or comment-added event that rules 2-4 do not
\* match, on a card with the trigger label and a channel label, starts the
\* script pipeline.
C10_Rule5ForEveryEvent ==
  (/\ rq.routed
   /\ rq.action_type \in relevant_types
   /\ ~Rule2 /\ ~Rule3 /\ ~Rule4
   /\ Rule5)
  => rq.out.route = "script"

\* C10: a label-added event that rule 4 does not match, on a card with the
\* trigger label and a channel label, starts the script pipeline for one of the
\* card's channels; a comment-added event never starts it, and a comment that
\* is not the bot's on a card not in review is ignored, "card not in review".
C10_Rule5ForLabelEvents ==
  rq.routed =>
    /\ (rq.action_type = "addLabelToCard" /\ ~Rule4 /\ Rule5) =>
         /\ rq.out.route = "script"
         /\ rq.out.status = "script_enqueued"
         /\ rq.out.channels = get_snap_channel(LabelNames(rq.labels))
    /\ rq.action_type = "commentCard" => rq.out.route # "script"
    /\ (/\ rq.action_type = "commentCard"
        /\ ~Rule2
        /\ Lower(label_review) \notin LabelNames(rq.labels)) =>
         (rq.out.status = "ignored" /\ rq.out.reason = "card not in review")

\* a label other than the approved one was added to a card with the trigger
\* and a channel label, and the event was routed to the script pipeline
C10_Witness ==
  /\ rq.routed
  /\ rq.action_type = "addLabelToCard"
  /\ ~Rule4 /\ Rule5
  /\ Lower(rq.added_label) # Lower(trigger_label)
  /\ rq.out.route = "script"

\* C11: a label-added event whose added label is the approved label in any
\* letter case is routed to the voice pipeline for one of the card's channels
\* when the card has a channel label, with or without the trigger label, and
\* is ignored, "no snap channel label", before any SET NX when it has none.
C11_ApprovedRoutesToVoice ==
  (/\ rq.routed
   /\ rq.action_type = "addLabelToCard"
   /\ Lower(rq.added_label) = Lower(label_approved))
  => IF \E n \in LabelNames(rq.labels) : n \in Channels
     THEN /\ rq.out.route = "voice"
          /\ rq.out.status = "voice_enqueued"
          /\ rq.chan \in Channels
     ELSE /\ rq.out.route = "none"
          /\ rq.out.status = "ignored"
          /\ rq.out.reason = "no snap channel label"

\* the approved label, written in capitals, was added to a card that carries
\* the trigger label and a channel label
C11_Witness ==
  /\ rq.routed
  /\ rq.action_type = "addLabelToCard"
  /\ rq.added_label = "SNAP APPROVED"
  /\ Lower(trigger_label) \in LabelNames(rq.labels)
  /\ rq.out.route = "voice"

\* C12: every comment the system has posted on a card starts with "**" and is
\* ignored by the comment route whatever labels the card carries, and no
\* revise_script task was queued for a comment that starts with "**".
C12_NoFeedbackLoop ==
  /\ \A c \in cards : \A text \in comments[c] :
       /\ StartsWithBold(text)
       /\ \A start \in Starts :
            RouteComment(LabelNames(StartLabels(start)), text).route = "none"
       /\ RouteComment(LabelNames(labels[c]), text).route = "none"
  /\ \A r \in Runs : runs[r].kind = "revise" => ~StartsWithBold(runs[r].comment)

\* a comment event with the text of a system comment was received for a card
\* in review that carries system comments, and was ignored as a bot comment
C12_Witness ==
  \E h \in Handlers :
    /\ handlers[h].pc = "done"
    /\ handlers[h].reason = "bot comment"
    /\ handlers[h].card \in cards
    /\ comments[handlers[h].card] # {}
    /\ label_review \in labels[handlers[h].card]

\* C13 as stated: two handlings of the same event select the same channel.
C13_SameChannel ==
  rq.routed => rq.chan = rq.again

\* C13: two handlings of the same event have the same route, and select the
\* same channel when at most one of the card's labels is a configured channel.
C13_SameChannelWithOneChannelLabel ==
  rq.routed =>
    /\ rq.out = Route(rq.action_type, LabelNames(rq.labels), rq.comment_text,
                      rq.added_label)
    /\ Cardinality({n \in LabelNames(rq.labels) : n \in Channels}) <= 1
         => rq.chan = rq.again
    /\ rq.out.route # "none" => (rq.chan \in Channels /\ rq.again \in Channels)

\* an event was routed for a card with one configured channel label and a
\* label with the channel suffix that is no configured channel
C13_Witness ==
  /\ rq.routed
  /\ rq.out.route # "none"
  /\ "Ghost (Snap)" \in rq.labels
  /\ Cardinality({n \in LabelNames(rq.labels) : n \in Channels}) = 1
  /\ rq.chan = rq.again

\* C14 as stated: every webhook POST whose signature verified is answered 200
\* with a body that carries a status.
C14_ValidSignatureAnswered200 ==
  \A h \in Handlers :
    (handlers[h].pc = "done" /\ handlers[h].verified = "True")
      => /\ handlers[h].code = 200
         /\ handlers[h].status \in {"ignored", "script_enqueued", "voice_enqueued",
                                    "revision_queued"}

Returned == admin.pc = "idle" /\ admin.card # "None"
LockKeys == {"script", "voice", "audio"}

\* C15 as stated: once a reset has returned, none of the card's four keys
\* exists, the returned count is the number of keys that existed before, and
\* no key of another card was changed.
C15_ResetClearsAllKeys ==
  Returned => /\ admin.left = {}
              /\ admin.keys_deleted = Cardinality(admin.before)
              /\ admin.frame

\* C15: a reset deletes the card's script, voice and audio keys and nothing
\* else: it leaves the stats key and every key of another card as they were,
\* and when nothing else wrote the card's keys between its deletes, none of
\* the three exists when it returns and the returned count is the number of
\* the three that existed before.
C15_ResetClearsLockKeys ==
  /\ admin.frame
  /\ Returned /\ admin.alone =>
       /\ admin.left = admin.before \cap {"stats"}
       /\ admin.keys_deleted = Cardinality(admin.before \cap LockKeys)

\* a reset of a card whose four keys all existed has returned, with nothing
\* else writing the card's keys between its deletes
C15_Witness ==
  /\ Returned
  /\ admin.alone
  /\ admin.before = Keys
  /\ admin.keys_deleted = 3
  /\ \E c \in cards \ {admin.card} : Exists(c, "voice")

\* C16 as stated: no operation extends the lifetime of a key created by the
\* handler's SET NX beyond the 24 hours it was created with, so an event that
\* arrives more than 24 hours after the acquiring one is admitted.
C16_LockLivesAtMostOneDay ==
  \A c \in cards : \A k \in {"script", "voice"} :
    kv[c][k].by = "handler" => kv[c][k].ttl <= LOCK_TTL

\* C17: a script or voice key that exists stops existing only in a step of the
\* admin reset on its card or when a day passes at the end of its expiry: no
\* step of a task, of the escalator or of the handler deletes it.  So the key
\* a handler created is still there while that lifetime has not been ended by
\* expiry or reset, whatever became of the chain.
C17_OnlyExpiryOrResetReleases ==
  /\ [](\A h \in Handlers :
          (handlers[h].won /\ handlers[h].route \in {"script", "voice"}
             /\ epoch[handlers[h].card][handlers[h].route] = handlers[h].epoch)
            => Exists(handlers[h].card, handlers[h].route))
  /\ [][\A c \in cards : \A k \in {"script", "voice"} :
          (Exists(c, k) /\ kv'[c][k].ttl = 0)
            => \/ admin' # admin /\ admin'.card = c
               \/ admin' = admin /\ kv[c][k].ttl = 1 /\ budget'.env = budget.env - 1]_vars

\* a voice chain has failed and its escalator has run, the voice key is still
\* there, and another approval of the card was answered "voice already processing"
C17_Witness ==
  \E r \in Runs, h \in Handlers :
    /\ runs[r].kind = "voice"
    /\ runs[r].status = "failed"
    /\ runs[r].errback = "done"
    /\ Exists(runs[r].card, "voice")
    /\ handlers[h].card = runs[r].card
    /\ handlers[h].reason = "voice already processing"

\* C18 as stated: a revise_script attempt that finds no script key ends the
\* task in failure at once, with no retry scheduled.
C18_ReviseMissingScriptIsTerminal ==
  \A r \in Runs :
    (runs[r].kind = "revise" /\ runs[r].script_missing)
      => (runs[r].status = "failed" /\ runs[r].retries = 0)

Board == <<labels, attached, comments, moved, kv>>

\* C19: a generate_voice attempt that finds no script key, and a deliver
\* attempt that finds no audio key, end the task in failure in that very
\* step: the step changes no label, attachment, comment, list or key, no
\* later attempt or task of the chain runs, and the chain's error callback is
\* called once.
C19_MissingBlobFailsAtOnce ==
  /\ [](\A r \in Runs :
          /\ (runs[r].kind = "voice" /\ runs[r].script_missing)
               => /\ runs[r].stage = "generate_voice"
                  /\ ~runs[r].voice_done /\ ~runs[r].deliver_started
          /\ (runs[r].kind = "voice" /\ (runs[r].script_missing \/ runs[r].audio_missing))
               => /\ runs[r].status = "failed" /\ runs[r].pc = "end"
                  /\ runs[r].errback \in {"pending", "done"}
                  /\ runs[r].escalations = 1)
  /\ [][\A r \in Runs :
          (/\ runs[r].kind = "voice"
           /\ \/ runs'[r].script_missing /\ ~runs[r].script_missing
              \/ runs'[r].audio_missing /\ ~runs[r].audio_missing)
            => (Board' = Board /\ runs'[r].retries = runs[r].retries)]_vars

\* one voice chain has failed in generate_voice for want of the script, and
\* another in deliver for want of the audio
C19_Witness ==
  \E r, q \in Runs :
    /\ runs[r].kind = "voice" /\ runs[r].script_missing /\ runs[r].errback = "done"
    /\ runs[q].kind = "voice" /\ runs[q].audio_missing /\ runs[q].errback = "done"

Ended == {"success", "failed"}

\* C20: max_retries is 3 for write_script, 2 for revise_script, 2 for
\* generate_voice and 3 for deliver; a task of a run is retried at most
\* max_retries times, and a run that has ended is never attempted again.
C20_RetriesCapped ==
  /\ MaxRetries("write_script") = 3 /\ MaxRetries("revise_script") = 2
  /\ MaxRetries("generate_voice") = 2 /\ MaxRetries("deliver") = 3
  /\ [](\A r \in Runs : runs[r].kind # "none" =>
          /\ runs[r].retries <= MaxRetries(runs[r].stage)
          /\ runs[r].status \in Ended => runs[r].pc = "end")
  /\ [][\A r \in Runs : runs[r].status \in Ended =>
          /\ runs'[r].status = runs[r].status
          /\ runs'[r].pc = "end"
          /\ runs'[r].stage = runs[r].stage
          /\ runs'[r].retries = runs[r].retries]_vars

\* a revise_script run has failed on its third attempt, each of them an
\* attempt that read the script and called Claude
C20_Witness ==
  \E r \in Runs :
    /\ runs[r].stage = "revise_script"
    /\ runs[r].status = "failed"
    /\ runs[r].retries = REVISE_MAX_RETRIES
    /\ ~runs[r].script_missing

\* C21 as stated: the retry numbered k of a task is scheduled base * k seconds
\* ahead, with base 60 for write_script and generate_voice and 30 for
\* revise_script and deliver.
C21_LinearBackoff ==
  \A r \in Runs :
    (runs[r].status = "active" /\ runs[r].retries >= 1)
      => runs[r].delay = default_retry_delay(runs[r].stage) * runs[r].retries

\* C22: the error callback of a chain is called for a task that has failed for
\* good; whether its two Trello calls succeed or not, its step ends it as
\* done and changes nothing else of any run: no retry count, stage or status,
\* and no further call of the callback; and a callback that is done stays done.
C22_EscalatorIsTerminal ==
  /\ [](\A r \in Runs :
          /\ runs[r].errback \in {"none", "pending", "done"}
          /\ runs[r].errback # "none"
               => /\ runs[r].status = "failed" /\ runs[r].pc = "end"
                  /\ runs[r].escalations = 1)
  /\ [][\A r \in Runs :
          /\ (runs[r].errback = "pending" /\ runs'[r].errback # "pending")
               => /\ runs'[r] = [runs[r] EXCEPT !.errback = "done",
                                                !.esc_label = runs'[r].esc_label,
                                                !.esc_comments = runs'[r].esc_comments]
                  /\ \A q \in Runs \ {r} : runs'[q] = runs[q]
          /\ runs[r].errback = "done"
               => /\ runs'[r].errback = "done"
                  /\ runs'[r].status = runs[r].status
                  /\ runs'[r].stage = runs[r].stage
                  /\ runs'[r].retries = runs[r].retries
                  /\ runs'[r].escalations = runs[r].escalations]_vars

\* an error callback is done although its call to add the error label failed
C22_Witness ==
  \E r \in Runs :
    /\ runs[r].errback = "done"
    /\ label_error \notin labels[runs[r].card]
    /\ "**Snap Pipeline Error**" \notin comments[runs[r].card]

Signals == {label_review, label_done, label_error}

\* C23 as stated: with workers scheduled fairly, a voice chain whose two tasks
\* succeed leaves the card carrying the done label, and every script or voice
\* chain that was queued leads to a state in which the card carries the review,
\* the done or the error label.
C23_EveryRunLeavesASignal ==
  \A r \in Runs :
    /\ (runs[r].kind = "voice" /\ runs[r].status = "success")
         ~> (runs[r].kind = "voice" /\ label_done \in labels[runs[r].card])
    /\ (runs[r].kind \in {"script", "voice"})
         ~> (runs[r].kind \in {"script", "voice"}
               /\ labels[runs[r].card] \cap Signals # {})

\* C24 as stated: a voice chain is queued for a card only if the card carried
\* the review label when the handler of the approved-label event read its labels.
C24_VoiceOnlyFromReview ==
  \A r \in Runs : runs[r].kind = "voice" => runs[r].in_review

\* C25 as stated: while a revise_script run is in progress the card carries the
\* writing label and not the review label.
C25_RevisionShowsWriting ==
  \A r \in Runs :
    (runs[r].kind = "revise" /\ runs[r].status = "active")
      => /\ label_writing \in labels[runs[r].card]
         /\ label_review \notin labels[runs[r].card]

\* C27 as stated: generate_voice never reads the "1" of the handler's SET NX as
\* the script, so no audio is made of it.
C27_VoiceNeverReadsTheLock ==
  /\ \A r \in Runs : runs[r].stage = "generate_voice" => runs[r].script # "1"
  /\ \A r \in Runs : runs[r].audio # "1"
  /\ \A c \in cards : kv[c]["audio"].val # "1"

\* C28 as stated: revise_script never reads the "1" of the handler's SET NX as
\* the current script, and stores and attaches no revision of it.
C28_ReviseNeverReadsTheLock ==
  /\ \A r \in Runs :
       runs[r].stage = "revise_script" => runs[r].script \notin {"1", Revised("1")}
  /\ \A c \in cards :
       /\ kv[c]["script"].val # Revised("1")
       /\ <<"script.txt", Revised("1")>> \notin attached[c]

\* C29 as stated: a deliver attempt that found no script key goes no further
\* than its reads: it attaches nothing, posts nothing and moves nothing.
C29_DeliverNeedsScript ==
  \A r \in Runs :
    (runs[r].stage = "deliver" /\ runs[r].pc \in {"d_labels", "d_stats", "d_delete"})
      => runs[r].script # "nil"

Intermediate ==
  {Lower(trigger_label), Lower(label_writing), Lower(label_review),
   Lower(label_approved), Lower(label_generating_voice)}

\* C30 as stated: when the label cleanup of deliver has made its five calls,
\* the card carries the done label and none of the trigger, writing, review,
\* approved and generating-voice labels.
C30_DeliverLeavesOnlyDone ==
  [][\A r \in Runs :
       (At(r, "deliver", "d_labels") /\ runs'[r].pc = "d_stats")
         => /\ label_done \in labels'[runs[r].card]
            /\ LabelNames(labels'[runs[r].card]) \cap Intermediate = {}]_vars

\* write_script run r returns its script in this step
WriteReturns(r) == At(r, "write_script", "w_stats") /\ runs'[r].status = "success"

\* what C26 says of the card when write_script run r returns
WritePostcondition(r) ==
  LET c == runs[r].card
  IN  /\ kv'[c]["script"].ttl > 0
      /\ kv'[c]["script"].val = runs[r].script
      /\ StatsFields("write_script") \subseteq ReadStats(kv', c)
      /\ label_review \in labels'[c]
      /\ label_writing \notin labels'[c]

Undisturbed(r) ==
  /\ budget.env = MaxEnv
  /\ \A q \in Runs \ {r} : runs[q].kind = "none"

C31_AudioDeletedAfterDelivery ==
  [][/\ \A r \in Runs :
          (runs[r].stage = "deliver" /\ runs[r].status = "active") =>
            /\ (runs'[r].retries > runs[r].retries \/ runs'[r].status = "failed")
                 => kv' = kv
            /\ runs'[r].status = "success"
                 => /\ runs[r].pc = "d_delete"
                    /\ kv'[runs[r].card]["audio"].ttl = 0
     /\ \A c \in cards :
          (Exists(c, "audio") /\ kv'[c]["audio"].ttl = 0)
            => \/ \E r \in Runs : /\ At(r, "deliver", "d_delete") /\ runs[r].card = c
                                  /\ runs'[r].status = "success"
               \/ admin' # admin /\ admin'.card = c
               \/ admin' = admin /\ kv[c]["audio"].ttl = 1
                    /\ budget'.env = budget.env - 1]_vars

\* a deliver whose first attempt failed has returned on a later attempt, and
\* the audio key is gone
C31_Witness ==
  \E r \in Runs :
    /\ runs[r].stage = "deliver"
    /\ runs[r].status = "success"
    /\ runs[r].retries > 0
    /\ ~runs[r].audio_deleted
    /\ ~Exists(runs[r].card, "audio")

C33_OnlyEscalatorAddsError ==
  [][\A c \in cards :
       (label_error \notin labels[c] /\ label_error \in labels'[c])
         => \E r \in Runs : /\ runs[r].card = c
                            /\ runs[r].errback = "pending"
                            /\ runs'[r].errback = "done"
                            /\ runs'[r].esc_label]_vars

\* a task has failed on every attempt, and only then the callback has added
\* the error label
C33_Witness ==
  \E r \in Runs :
    /\ runs[r].errback = "done"
    /\ runs[r].esc_label
    /\ runs[r].retries = MaxRetries(runs[r].stage)
    /\ runs[r].retries > 0
    /\ label_error \in labels[runs[r].card]

\* C34 as stated: the error callback is called only for a task that has failed
\* on all 1 + max_retries attempts.
C34_EscalatesOnlyOnExhaustion ==
  \A r \in Runs :
    runs[r].errback # "none" => runs[r].retries = MaxRetries(runs[r].stage)

\* C34: the error callback is called only for a task of a chain that has ended
\* in failure: one that has failed on all 1 + max_retries attempts, or a
\* generate_voice that found no script, or a deliver that found no audio, on
\* whichever attempt.  A failed attempt that is retried does not call it.
C34_EscalatesOnlyOnTerminalFailure ==
  \A r \in Runs :
    /\ runs[r].errback # "none"
         => /\ runs[r].kind \in {"script", "voice"}
            /\ runs[r].status = "failed"
            /\ \/ runs[r].retries = MaxRetries(runs[r].stage)
               \/ runs[r].stage = "generate_voice" /\ runs[r].script_missing
               \/ runs[r].stage = "deliver" /\ runs[r].audio_missing
    /\ runs[r].status = "active" => (runs[r].errback = "none" /\ runs[r].escalations = 0)

\* the callback has run for a generate_voice that found no script on its first
\* attempt
C34_Witness ==
  \E r \in Runs :
    /\ runs[r].errback = "done"
    /\ runs[r].stage = "generate_voice"
    /\ runs[r].script_missing
    /\ runs[r].retries = 0

\* C35 as stated: a card never has two revise_script runs in progress.
C35_OneRevisionAtATime ==
  \A r, q \in Runs :
    (/\ r # q
     /\ runs[r].kind = "revise" /\ runs[q].kind = "revise"
     /\ runs[r].card = runs[q].card
     /\ runs[r].comment = runs[q].comment)
      => ~(runs[r].status = "active" /\ runs[q].status = "active")

\* C36 as stated: when write_script has added the review label, the script key
\* holds the script it wrote.
C36_ReviewLabelAfterStore ==
  \A r \in Runs :
    (At(r, "write_script", "w_store") /\ label_review \in labels[runs[r].card])
      => /\ Exists(runs[r].card, "script")
         /\ kv[runs[r].card]["script"].val = runs[r].script

\* C37 as stated: the script deliver found and attaches is the text the audio
\* it attaches was made of.
C37_DeliverAttachesTheSpokenScript ==
  \A r \in Runs :
    (/\ runs[r].stage = "deliver"
     /\ runs[r].pc \in {"d_post", "d_labels", "d_stats", "d_delete"}
     /\ runs[r].script # "nil")
      => runs[r].script = runs[r].audio

ProgressLabels == {label_writing, label_review, label_generating_voice, label_done}

\* C39 as stated: a card carries at most one of the writing, review,
\* generating-voice and done labels.
C39_OneProgressLabel ==
  \A c \in cards : Cardinality(labels[c] \cap ProgressLabels) <= 1

\* C38 as stated: one voice run attaches the audio at most once and posts the
\* completion comment at most once.
C38_DeliversOnce ==
  \A r \in Runs :
    runs[r].audio_attachments <= 1 /\ runs[r].completion_comments <= 1

RoutingReasons ==
  {"action_type", "no card_id", "bot comment", "card not in review",
   "no trigger label", "no snap channel label"}

====
